---- MODULE Spec2Model ----
(***************************************************************************)
(* Game-state and buzzer-arbitration core of metro-xmas: the request       *)
(* handlers of the Express server and the game_state / buzz_queue /        *)
(* players / questions tables they read and write.  Every handler runs to  *)
(* completion on Node's single thread over a synchronous SQLite driver     *)
(* (better-sqlite3), so one handler is one atomic action.                  *)
(***************************************************************************)
EXTENDS Integers, Sequences, FiniteSets, TLC

(* ------------------------------ bounds -------------------------------- *)

\* Players 1..NPlayers are registered when the game begins; player 1 is the
\* system player ("house").
NPlayers == 2

\* The timestamps new Date() yields run over 0..MaxTime.
MaxTime == 1

\* The sum of the absolute scores never exceeds MaxScore (guard of resolve).
MaxScore == 200

\* The catalog of the board rounds holds questions 1..MaxEntries.
MaxEntries == 3

\* Registered players and timestamps 0..MaxQueueTime of the rounds that fill
\* the buzz queue.
NQueuePlayers == 4

MaxQueueTime == 2

(* --------------------------- value domains ---------------------------- *)

\* SQL NULL / JS null or undefined in an integer-valued column or input.
NULL == -1

\* SQL NULL in a TEXT column that holds a text (category, clue, answer).
NullText == "null"

\* The ids a request may carry: the registered players and one more id.
PlayerIds == 1 .. (NPlayers + 1)

Roster == 1 .. NPlayers

\* The system player that owns the seeded default questions (slug 'house').
House == 1

\* The catalog row of the seeded default-pack question (owned by the house).
DefaultQ == 1

\* The question ids a request may carry: the id of that row, which is unknown
\* once the catalog has been cleared.
QuestionIds == {DefaultQ}

\* The one default-pack entry the repository's test relies on.
DefaultPack ==
    { [category |-> "Disney & Pixar", points |-> 200,
       questionText |-> "Frozen", answer |-> "Olaf"] }

\* The (category, points) a select-card request may carry: a tile the default
\* pack covers, and a category it does not cover sent without points.
Tiles ==
    { <<"Disney & Pixar", 200>>, <<"Holidays", NULL>> }

VARIABLES
    players,      \* ids of the rows of table players
    score,        \* players.score, a function on players
    questions,    \* table questions: a function on the ids of its rows
    game_state,   \* the single row of table game_state
    buzz_queue,   \* table buzz_queue: its rows in rowid (insertion) order
    emitted_state,  \* the last payload of io.emit('game:state', ...), if any
    emitted_queue   \* the last payload of io.emit('buzz:queue', ...), if any

vars ==
    << players, score, questions, game_state, buzz_queue,
       emitted_state, emitted_queue >>

\* The database as one record: what a handler reads and what it leaves.
DB ==
    [ players    |-> players,
      score      |-> score,
      questions  |-> questions,
      game_state |-> game_state,
      buzz_queue |-> buzz_queue ]

(* ------------------------------ db.js --------------------------------- *)

\* The row INSERT INTO game_state (id) VALUES (1) creates, with the column
\* defaults of the schema and of the migrations.
InitialGameState ==
    [ status                 |-> "waiting",
      current_question_id    |-> NULL,
      current_category       |-> NullText,
      current_points         |-> NULL,
      current_is_placeholder |-> 0,
      current_clue_text      |-> NullText,
      current_answer_text    |-> NullText,
      turn_player_id         |-> NULL,
      buzzer_locked          |-> 0,
      last_buzz_player_id    |-> NULL,
      last_buzz_time         |-> NULL,
      question_reading       |-> 0 ]

\* updateGameState(patch) as a mutant: it rewrites the whole row, resetting
\* every column the patch does not name to its default.
UpdateGameStateReplacing(gs, patch) ==
    [ k \in DOMAIN gs |->
        IF k \in DOMAIN patch THEN patch[k] ELSE InitialGameState[k] ]

\* updateGameState(patch): UPDATE game_state SET <the patch's columns>, then
\* the row as getGameState() reads it.  An empty patch changes nothing.
UpdateGameState(gs, patch) ==
    [ k \in DOMAIN gs |-> IF k \in DOMAIN patch THEN patch[k] ELSE gs[k] ]

(* ----------------------------- helpers -------------------------------- *)

\* const clueActive = !!state.current_question_id || !!state.current_is_placeholder
ClueActive(gs) ==
    gs.current_question_id # NULL \/ gs.current_is_placeholder # 0

\* The columns every clue-clearing patch of the server sets.
NoClue ==
    [ current_question_id    |-> NULL,
      current_category       |-> NullText,
      current_points         |-> NULL,
      current_is_placeholder |-> 0,
      current_clue_text      |-> NullText,
      current_answer_text    |-> NullText ]

\* The unlocking columns as a mutant: only the flag is cleared, the
\* responder and the time of the buzz are left.
UnlockedFlagOnly == [ buzzer_locked |-> 0 ]

\* buzzer_locked: 0, last_buzz_player_id: null, last_buzz_time: null
Unlocked ==
    [ buzzer_locked |-> 0, last_buzz_player_id |-> NULL, last_buzz_time |-> NULL ]

\* r1 @@ r2 for records given as functions: the fields of both, r1 winning.
Merge(r1, r2) ==
    [ k \in DOMAIN r1 \cup DOMAIN r2 |-> IF k \in DOMAIN r1 THEN r1[k] ELSE r2[k] ]

\* listBuzzQueue(): the rows of buzz_queue joined with players, by buzz_time
\* (the order of insertion: the clock never runs backwards).
ListBuzzQueue(q, ps) == SelectSeq(q, LAMBDA row : row.player_id \in ps)

\* The payloads a handler hands to emit() once its writes are done: the
\* row updateGameState() returned for 'game:state', listBuzzQueue() for
\* 'buzz:queue'; each a sequence, empty when the event is not emitted.
Payloads(db, events) ==
    [ state |-> IF "game:state" \in events THEN << db.game_state >> ELSE << >>,
      queue |-> IF "buzz:queue" \in events
                THEN << ListBuzzQueue(db.buzz_queue, db.players) >> ELSE << >> ]

\* What a handler does: the database it leaves, the response it sends
\* (HTTP status, the error text, and the body fields of a buzz) and the
\* events it emits.  An error is returned before anything is emitted.
Reply(db, code, error) ==
    [ db |-> db,
      resp |-> [ code |-> code, error |-> error,
                 queued |-> FALSE, reason |-> "none", position |-> 0 ],
      sent |-> Payloads(db, {}) ]

\* res.json(...) after the emits of `events`.
Emits(db, events) ==
    [ db |-> db,
      resp |-> [ code |-> 200, error |-> "none",
                 queued |-> FALSE, reason |-> "none", position |-> 0 ],
      sent |-> Payloads(db, events) ]

BuzzReply(db, queued, reason, position, events) ==
    [ db |-> db,
      resp |-> [ code |-> 200, error |-> "none",
                 queued |-> queued, reason |-> reason, position |-> position ],
      sent |-> Payloads(db, events) ]

PlayerIdsOf(q) == { q[i].player_id : i \in DOMAIN q }

\* clearBuzzQueue(): DELETE FROM buzz_queue
ClearBuzzQueue == << >>

\* enqueueBuzz(playerId, buzzTime) as a mutant: the row is inserted without
\* the SELECT 1 FROM buzz_queue WHERE player_id = ? check.
EnqueueBuzzNoCheck(q, playerId, buzzTime) ==
    [ queue  |-> Append(q, [player_id |-> playerId, buzz_time |-> buzzTime]),
      queued |-> TRUE,
      reason |-> "none" ]

\* enqueueBuzz(playerId, buzzTime): the queue after the call and the result.
EnqueueBuzz(q, playerId, buzzTime) ==
    IF playerId \in PlayerIdsOf(q)
    THEN [ queue |-> q, queued |-> FALSE, reason |-> "already_queued" ]
    ELSE [ queue  |-> Append(q, [player_id |-> playerId, buzz_time |-> buzzTime]),
           queued |-> TRUE,
           reason |-> "none" ]

\* DELETE FROM buzz_queue WHERE id = ?: the queue without its i-th row.
RemoveAt(q, i) ==
    [ j \in 1 .. (Len(q) - 1) |-> IF j < i THEN q[j] ELSE q[j + 1] ]

\* dequeueNextBuzz() as a mutant: ORDER BY buzz_time DESC.
NextBuzzIndexesLatest(q) ==
    { i \in DOMAIN q : \A j \in DOMAIN q : q[j].buzz_time <= q[i].buzz_time }

\* dequeueNextBuzz(): the rows ORDER BY buzz_time ASC LIMIT 1 may return.
\* SQL leaves the order of rows with equal buzz_time open.
NextBuzzIndexes(q) ==
    { i \in DOMAIN q : \A j \in DOMAIN q : q[i].buzz_time <= q[j].buzz_time }

\* What a handler's call of dequeueNextBuzz() may return: an index of the
\* queue, or 0 for null (the queue is empty).
DequeueChoices(q) == IF q = << >> THEN {0} ELSE NextBuzzIndexes(q)

\* listBuzzQueue().length: the rows of buzz_queue joined with players.
ListBuzzQueueLength(q, ps) ==
    Cardinality({ i \in DOMAIN q : q[i].player_id \in ps })

\* DELETE FROM buzz_queue WHERE player_id = ?
RECURSIVE WithoutPlayer(_, _)
WithoutPlayer(q, id) ==
    IF q = << >> THEN << >>
    ELSE IF Head(q).player_id = id THEN WithoutPlayer(Tail(q), id)
         ELSE << Head(q) >> \o WithoutPlayer(Tail(q), id)

\* String.prototype.trim() on the category texts in use: only the padded
\* one has white space to lose.
Trim(s) == IF s = " disney & pixar " THEN "disney & pixar" ELSE s

\* String.prototype.toLowerCase() on the category texts in use.
ToLowerCase(s) ==
    IF s = "Disney & Pixar" THEN "disney & pixar"
    ELSE IF s = "Holidays" THEN "holidays"
    ELSE s

\* findDefaultQuestion as a mutant: the entry is matched by its category
\* alone.
FindDefaultQuestionAnyPoints(category, points) ==
    IF category = NullText \/ points = NULL THEN {}
    ELSE { d \in DefaultPack :
             ToLowerCase(Trim(d.category)) = ToLowerCase(Trim(category)) }

\* findDefaultQuestion(category, points): the matching entry of the default
\* pack, as a set (empty when there is none, or when an argument is missing).
FindDefaultQuestion(category, points) ==
    IF category = NullText \/ points = NULL THEN {}
    ELSE { d \in DefaultPack :
             /\ ToLowerCase(Trim(d.category)) = ToLowerCase(Trim(category))
             /\ d.points = points }

\* Number.isFinite(x) ? x : 0
FiniteOrZero(x) == IF x = NULL THEN 0 ELSE x

Abs(x) == IF x < 0 THEN -x ELSE x

RECURSIVE SumAbs(_, _)
SumAbs(f, S) ==
    IF S = {} THEN 0
    ELSE LET x == CHOOSE y \in S : TRUE
         IN  Abs(f[x]) + SumAbs(f, S \ {x})

\* The timestamps new Date() may yield in a handler: the wall clock does not
\* run backwards, so none is earlier than a timestamp the tables hold.
Now(db, horizon) ==
    { t \in 0 .. horizon :
        /\ db.game_state.last_buzz_time = NULL \/ db.game_state.last_buzz_time <= t
        /\ \A i \in DOMAIN db.buzz_queue : db.buzz_queue[i].buzz_time <= t }

(* ------------------------------- Init --------------------------------- *)

\* The catalog once the admin has seeded the default pack, selected for the
\* game (POST /api/admin/seed-defaults).
SeededQuestions ==
    [ q \in {DefaultQ} |->
        [ player_id |-> House, category |-> "Disney & Pixar", points |-> 200,
          selected_for_game |-> 1, used_in_game |-> 0 ] ]

\* The database once the roster has registered and the admin has seeded the
\* default pack: scores 0, nothing used, the game_state row as created.
Init ==
    /\ players = Roster
    /\ score = [ p \in Roster |-> 0 ]
    /\ questions = SeededQuestions
    /\ game_state = InitialGameState
    /\ buzz_queue = << >>
    /\ emitted_state = << >>
    /\ emitted_queue = << >>

(* ------------------------- request handlers --------------------------- *)

\* The first-buzz branch as a mutant: the responder is recorded but the
\* buzzer is left open, so the next buzz is a first buzz again.
BuzzUnlockedLeftOpen(db, playerId, now) ==
    BuzzReply([db EXCEPT !.game_state = UpdateGameState(db.game_state,
                   [ last_buzz_player_id |-> playerId,
                     last_buzz_time      |-> now ])],
              FALSE, "none", 0, {"game:state", "buzz:queue"})

\* POST /api/game/buzz, first buzz wins the lock: the buzzer is unlocked.
BuzzUnlocked(db, playerId, now) ==
    BuzzReply([db EXCEPT !.game_state = UpdateGameState(db.game_state,
                   [ buzzer_locked       |-> 1,
                     last_buzz_player_id |-> playerId,
                     last_buzz_time      |-> now ])],
              FALSE, "none", 0, {"game:state", "buzz:queue"})

\* The locked branch as a mutant: the current responder is not told apart
\* and queues like anybody else.
BuzzLockedSelfQueue(db, playerId, now) ==
    LET r == EnqueueBuzz(db.buzz_queue, playerId, now)
    IN  BuzzReply([db EXCEPT !.buzz_queue = r.queue], r.queued, r.reason,
                  ListBuzzQueueLength(r.queue, db.players), {"buzz:queue"})

\* The locked branch as a mutant: the latest buzz takes the lock over.
BuzzLockedTakingOver(db, playerId, now) ==
    BuzzReply([db EXCEPT !.game_state = UpdateGameState(db.game_state,
                   [ buzzer_locked       |-> 1,
                     last_buzz_player_id |-> playerId,
                     last_buzz_time      |-> now ])],
              FALSE, "none", 0, {"game:state", "buzz:queue"})

\* The locked branch as a mutant: the position is the length of the queue
\* read before the buzz is inserted.
BuzzLockedPositionBefore(db, playerId, now) ==
    IF db.game_state.last_buzz_player_id = playerId
    THEN BuzzReply(db, FALSE, "already_current", 0, {})
    ELSE LET r == EnqueueBuzz(db.buzz_queue, playerId, now)
         IN  BuzzReply([db EXCEPT !.buzz_queue = r.queue], r.queued, r.reason,
                       ListBuzzQueueLength(db.buzz_queue, db.players),
                       {"buzz:queue"})

\* POST /api/game/buzz, already locked (someone is currently up): queue
\* this buzz, unless it is the current responder's.
BuzzLocked(db, playerId, now) ==
    IF db.game_state.last_buzz_player_id = playerId
    THEN BuzzReply(db, FALSE, "already_current", 0, {})
    ELSE LET r == EnqueueBuzz(db.buzz_queue, playerId, now)
         IN  BuzzReply([db EXCEPT !.buzz_queue = r.queue], r.queued, r.reason,
                       ListBuzzQueueLength(r.queue, db.players), {"buzz:queue"})

\* The buzz handler as a mutant: the status of the game is not checked.
BuzzAnyStatus(db, playerId, now) ==
    LET state == db.game_state
    IN
    IF playerId = NULL THEN Reply(db, 400, "playerId is required")
    ELSE IF playerId \notin db.players THEN Reply(db, 404, "Player not found")
    ELSE IF ~ClueActive(state) THEN Reply(db, 400, "No active clue")
    ELSE IF state.question_reading # 0
    THEN Reply(db, 400, "Question is still being read")
    ELSE IF state.buzzer_locked # 0 THEN BuzzLocked(db, playerId, now)
    ELSE BuzzUnlocked(db, playerId, now)

\* The buzz handler as a mutant: the reading window is not checked.
BuzzWhileReading(db, playerId, now) ==
    LET state == db.game_state
    IN
    IF playerId = NULL THEN Reply(db, 400, "playerId is required")
    ELSE IF playerId \notin db.players THEN Reply(db, 404, "Player not found")
    ELSE IF state.status # "active" THEN Reply(db, 400, "Game is not active")
    ELSE IF ~ClueActive(state) THEN Reply(db, 400, "No active clue")
    ELSE IF state.buzzer_locked # 0 THEN BuzzLocked(db, playerId, now)
    ELSE BuzzUnlocked(db, playerId, now)

\* POST /api/game/buzz
Buzz(db, playerId, now) ==
    LET state == db.game_state
    IN
    IF playerId = NULL THEN Reply(db, 400, "playerId is required")
    ELSE IF playerId \notin db.players THEN Reply(db, 404, "Player not found")
    ELSE IF state.status # "active" THEN Reply(db, 400, "Game is not active")
    ELSE IF ~ClueActive(state) THEN Reply(db, 400, "No active clue")
    ELSE IF state.question_reading # 0
    THEN Reply(db, 400, "Question is still being read")
    ELSE IF state.buzzer_locked # 0 THEN BuzzLocked(db, playerId, now)
    ELSE BuzzUnlocked(db, playerId, now)

\* select-card's clue check as a mutant: the check is missing.
ClueConflictNever(state0, force) == FALSE

\* select-card: only allow selecting a new card when no clue is active
\* (unless force).
ClueConflict(state0, force) == ClueActive(state0) /\ ~force

\* select-card's turn check as a mutant: a request that names no picker is
\* let through.
NotYourTurnUnlessMissing(state0, force, pickerPlayerId) ==
    /\ state0.turn_player_id # NULL
    /\ ~force
    /\ pickerPlayerId # NULL
    /\ pickerPlayerId # state0.turn_player_id

\* select-card: if it is someone's turn, only they can pick (unless force).
NotYourTurn(state0, force, pickerPlayerId) ==
    /\ state0.turn_player_id # NULL
    /\ ~force
    /\ (pickerPlayerId = NULL \/ pickerPlayerId # state0.turn_player_id)

\* select-card's used check as a mutant: the check is missing.
CardAlreadyUsedNever(q, force) == FALSE

\* select-card: if (!force) { ... if (q.usedInGame) return 409 'Card
\* already used' }
CardAlreadyUsed(q, force) == ~force /\ q.used_in_game # 0

\* POST /api/game/select-card; the tile is the request's (category, points).
SelectCard(db, questionId, tile, force, pickerPlayerId) ==
    LET cat    == IF tile[1] = NullText THEN NullText ELSE Trim(tile[1])
        pts    == tile[2]
        state0 == db.game_state
    IN
    IF ClueConflict(state0, force)
    THEN Reply(db, 409, "A clue is already active")
    ELSE IF NotYourTurn(state0, force, pickerPlayerId)
    THEN Reply(db, 403, "Not your turn")
    ELSE IF questionId = NULL
    THEN LET fallback == FindDefaultQuestion(cat, pts)
             clue     == IF fallback = {} THEN "N/A"
                         ELSE (CHOOSE d \in fallback : TRUE).questionText
             answer   == IF fallback = {} THEN "N/A"
                         ELSE (CHOOSE d \in fallback : TRUE).answer
         IN  Emits([db EXCEPT
                      !.buzz_queue = ClearBuzzQueue,
                      !.game_state = UpdateGameState(state0,
                          Merge([ current_question_id    |-> NULL,
                                  current_category       |-> cat,
                                  current_points         |-> pts,
                                  current_is_placeholder |-> 1,
                                  current_clue_text      |-> clue,
                                  current_answer_text    |-> answer ], Unlocked))],
                   {"game:state", "buzz:queue"})
    ELSE IF questionId \notin DOMAIN db.questions
    THEN Reply(db, 404, "Question not found")
    ELSE IF ~force /\ db.questions[questionId].selected_for_game = 0
    THEN Reply(db, 400, "Question not selected")
    ELSE IF CardAlreadyUsed(db.questions[questionId], force)
    THEN Reply(db, 409, "Card already used")
    ELSE LET q == db.questions[questionId]
         IN  Emits([db EXCEPT
                      !.questions[questionId].used_in_game = 1,
                      !.buzz_queue = ClearBuzzQueue,
                      !.game_state = UpdateGameState(state0,
                          Merge([ current_question_id    |-> questionId,
                                  current_category       |-> IF q.category # NullText
                                                             THEN q.category ELSE cat,
                                  current_points         |-> IF q.points # NULL
                                                             THEN q.points ELSE pts,
                                  current_is_placeholder |-> 0,
                                  current_clue_text      |-> NullText,
                                  current_answer_text    |-> NullText,
                                  question_reading       |-> 1 ], Unlocked))],
                   {"game:state", "buzz:queue"})

\* UPDATE questions SET used_in_game = 0
AllUnused(qs) ==
    [ q \in DOMAIN qs |-> [qs[q] EXCEPT !.used_in_game = 0] ]

\* reset-board as a mutant: the clue is cleared, the lock is left.
ResetBoardKeepingLock(db) ==
    Emits([db EXCEPT
             !.questions = AllUnused(db.questions),
             !.game_state = UpdateGameState(db.game_state, NoClue)],
          {"game:state"})

\* POST /api/game/reset-board
ResetBoard(db) ==
    Emits([db EXCEPT
             !.questions = AllUnused(db.questions),
             !.game_state = UpdateGameState(db.game_state, Merge(NoClue, Unlocked))],
          {"game:state"})

\* start as a mutant: a game that is already active is not started again.
StartOnce(db) ==
    LET selectedCount ==
            Cardinality({ q \in DOMAIN db.questions :
                            db.questions[q].selected_for_game = 1 })
        seeds == selectedCount = 0 /\ House \notin db.players
    IN
    IF db.game_state.status = "active" THEN Reply(db, 409, "Game already active")
    ELSE
    Emits([db EXCEPT
             !.players = IF seeds THEN db.players \cup {House} ELSE db.players,
             !.score = IF seeds
                       THEN [ p \in db.players \cup {House} |->
                                IF p = House THEN 0 ELSE db.score[p] ]
                       ELSE db.score,
             !.questions = AllUnused(db.questions),
             !.game_state = UpdateGameState(db.game_state,
                 Merge([ status |-> "active", turn_player_id |-> NULL ],
                       Merge(NoClue, Unlocked))),
             !.buzz_queue = ClearBuzzQueue],
          {"game:state", "buzz:queue"})

\* start as a mutant: the board is not reset, tiles used in the last game
\* stay used.
StartKeepingUsed(db) ==
    LET selectedCount ==
            Cardinality({ q \in DOMAIN db.questions :
                            db.questions[q].selected_for_game = 1 })
        seeds == selectedCount = 0 /\ House \notin db.players
    IN
    Emits([db EXCEPT
             !.players = IF seeds THEN db.players \cup {House} ELSE db.players,
             !.score = IF seeds
                       THEN [ p \in db.players \cup {House} |->
                                IF p = House THEN 0 ELSE db.score[p] ]
                       ELSE db.score,
             !.game_state = UpdateGameState(db.game_state,
                 Merge([ status |-> "active", turn_player_id |-> NULL ],
                       Merge(NoClue, Unlocked))),
             !.buzz_queue = ClearBuzzQueue],
          {"game:state", "buzz:queue"})

\* POST /api/game/start.  seedDefaultQuestions inserts no row here: every
\* entry of the pack is in question_usage since the seeding Init starts from,
\* so all it does is ensureSystemPlayer().
Start(db) ==
    LET selectedCount ==
            Cardinality({ q \in DOMAIN db.questions :
                            db.questions[q].selected_for_game = 1 })
        seeds == selectedCount = 0 /\ House \notin db.players
    IN
    Emits([db EXCEPT
             !.players = IF seeds THEN db.players \cup {House} ELSE db.players,
             !.score = IF seeds
                       THEN [ p \in db.players \cup {House} |->
                                IF p = House THEN 0 ELSE db.score[p] ]
                       ELSE db.score,
             !.questions = AllUnused(db.questions),
             !.game_state = UpdateGameState(db.game_state,
                 Merge([ status |-> "active", turn_player_id |-> NULL ],
                       Merge(NoClue, Unlocked))),
             !.buzz_queue = ClearBuzzQueue],
          {"game:state", "buzz:queue"})

\* end as a mutant: the queue is not cleared.
EndKeepingQueue(db) ==
    Emits([db EXCEPT
             !.game_state = UpdateGameState(db.game_state,
                 [ status |-> "ended", buzzer_locked |-> 1 ])],
          {"game:state", "buzz:queue"})

\* POST /api/game/end
End(db) ==
    Emits([db EXCEPT
             !.game_state = UpdateGameState(db.game_state,
                 [ status |-> "ended", buzzer_locked |-> 1 ]),
             !.buzz_queue = ClearBuzzQueue],
          {"game:state", "buzz:queue"})

\* reset as a mutant: the scores are zeroed with the game, as
\* reset-for-new-game does.
ResetZeroingScores(db) ==
    Emits([db EXCEPT
             !.score = [ p \in db.players |-> 0 ],
             !.game_state = UpdateGameState(db.game_state,
                 Merge([ status |-> "waiting", turn_player_id |-> NULL ],
                       Merge(NoClue, Unlocked))),
             !.buzz_queue = ClearBuzzQueue],
          {"game:state", "buzz:queue"})

\* POST /api/game/reset
Reset(db) ==
    Emits([db EXCEPT
             !.game_state = UpdateGameState(db.game_state,
                 Merge([ status |-> "waiting", turn_player_id |-> NULL ],
                       Merge(NoClue, Unlocked))),
             !.buzz_queue = ClearBuzzQueue],
          {"game:state", "buzz:queue"})

\* POST /api/admin/reset-for-new-game
ResetForNewGame(db) ==
    Emits([db EXCEPT
             !.score = [ p \in db.players |-> 0 ],
             !.questions = << >>,
             !.buzz_queue = ClearBuzzQueue,
             !.game_state = UpdateGameState(db.game_state,
                 Merge([ status |-> "waiting", turn_player_id |-> NULL ],
                       Merge(NoClue, Unlocked)))],
          {"game:state", "buzz:queue"})

\* POST /api/game/current-question
CurrentQuestion(db, questionId) ==
    IF questionId = NULL THEN Reply(db, 400, "questionId is required")
    ELSE IF questionId \notin DOMAIN db.questions
    THEN Reply(db, 404, "Question not found")
    ELSE Emits([db EXCEPT
                  !.game_state = UpdateGameState(db.game_state,
                      [ current_question_id |-> questionId ])],
               {"game:state"})

\* unlock-buzzer as a mutant: the lock is released but the waiting players
\* are left in the queue.
UnlockBuzzerKeepingQueue(db) ==
    Emits([db EXCEPT
             !.game_state = UpdateGameState(db.game_state, Unlocked)],
          {"game:state", "buzz:queue"})

\* POST /api/game/unlock-buzzer
UnlockBuzzer(db) ==
    Emits([db EXCEPT
             !.game_state = UpdateGameState(db.game_state, Unlocked),
             !.buzz_queue = ClearBuzzQueue],
          {"game:state", "buzz:queue"})

\* POST /api/game/set-question-reading, with a boolean `reading`
SetQuestionReading(db, reading) ==
    Emits([db EXCEPT
             !.game_state = UpdateGameState(db.game_state,
                 [ question_reading |-> IF reading THEN 1 ELSE 0 ])],
          {"game:state"})

\* skip-current as a mutant: the turn is cleared with the clue, as the game
\* resets do.
SkipCurrentClearingTurn(db) ==
    IF ~ClueActive(db.game_state) THEN Reply(db, 400, "No current question")
    ELSE Emits([db EXCEPT
                  !.buzz_queue = ClearBuzzQueue,
                  !.game_state = UpdateGameState(db.game_state,
                      Merge([ turn_player_id |-> NULL ], Merge(NoClue, Unlocked)))],
               {"game:state", "buzz:queue"})

\* skip-current as a mutant: the clue's question is looked up first, as
\* resolve-current does, and the skip is refused when it is gone.
SkipCurrentLookingUp(db) ==
    IF ~ClueActive(db.game_state) THEN Reply(db, 400, "No current question")
    ELSE IF /\ db.game_state.current_is_placeholder = 0
            /\ db.game_state.current_question_id \notin DOMAIN db.questions
    THEN Reply(db, 404, "Question not found")
    ELSE Emits([db EXCEPT
                  !.buzz_queue = ClearBuzzQueue,
                  !.game_state = UpdateGameState(db.game_state,
                                                 Merge(NoClue, Unlocked))],
               {"game:state", "buzz:queue"})

\* POST /api/admin/skip-current
SkipCurrent(db) ==
    IF ~ClueActive(db.game_state) THEN Reply(db, 400, "No current question")
    ELSE Emits([db EXCEPT
                  !.buzz_queue = ClearBuzzQueue,
                  !.game_state = UpdateGameState(db.game_state,
                                                 Merge(NoClue, Unlocked))],
               {"game:state", "buzz:queue"})

\* The clue columns as the wrong branch of resolve-current writes them back.
KeepClue(state) ==
    [ current_question_id    |-> state.current_question_id,
      current_category       |-> state.current_category,
      current_points         |-> state.current_points,
      current_is_placeholder |-> state.current_is_placeholder,
      current_clue_text      |-> state.current_clue_text,
      current_answer_text    |-> state.current_answer_text ]

\* resolve-current's delta as a mutant: the points stored with the clue,
\* whatever the kind of clue.
ClueDeltaStored(state, qs) == FiniteOrZero(state.current_points)

\* resolve-current's delta once the clue's question is known to exist: the
\* placeholder's stored points, or the points of the catalog row.
ClueDelta(state, qs) ==
    IF state.current_is_placeholder # 0
    THEN FiniteOrZero(state.current_points)
    ELSE FiniteOrZero(qs[state.current_question_id].points)

\* UPDATE players SET score = score + ? WHERE id = ? as a mutant: the
\* increment goes to every row (the WHERE clause is dropped).
AddScoreAll(sc, id, d) == [ p \in DOMAIN sc |-> sc[p] + d ]

\* UPDATE players SET score = score + ? WHERE id = ?
AddScore(sc, id, d) ==
    [ p \in DOMAIN sc |-> IF p = id THEN sc[p] + d ELSE sc[p] ]

\* The correct branch as a mutant: the buzz queue is left as it is.
ResolveCorrectKeepingQueue(db, playerId, delta) ==
    Emits([db EXCEPT
             !.score = AddScore(db.score, playerId, delta),
             !.game_state = UpdateGameState(db.game_state,
                 Merge([ turn_player_id |-> playerId ],
                       Merge(NoClue, Unlocked)))],
          {"game:state", "buzz:queue"})

\* resolve-current, correct: the player scores, the clue and the queue are
\* cleared, and the player who answered chooses next.
ResolveCorrect(db, playerId, delta) ==
    Emits([db EXCEPT
             !.score = AddScore(db.score, playerId, delta),
             !.buzz_queue = ClearBuzzQueue,
             !.game_state = UpdateGameState(db.game_state,
                 Merge([ turn_player_id |-> playerId ],
                       Merge(NoClue, Unlocked)))],
          {"game:state", "buzz:queue"})

\* resolve-current, wrong: the player loses the clue's value and the clue
\* stays; nextNow is the timestamp and next the row (0: none) its call of
\* dequeueNextBuzz() yields.
ResolveWrong(db, playerId, delta, nextNow, next) ==
    LET state == db.game_state
        sc    == IF delta # 0 THEN AddScore(db.score, playerId, -delta)
                 ELSE db.score
    IN
    IF next # 0
    THEN Emits([db EXCEPT
                  !.score = sc,
                  !.buzz_queue = RemoveAt(db.buzz_queue, next),
                  !.game_state = UpdateGameState(state,
                      Merge(KeepClue(state),
                            [ buzzer_locked       |-> 1,
                              last_buzz_player_id |-> db.buzz_queue[next].player_id,
                              last_buzz_time      |-> nextNow ]))],
               {"game:state", "buzz:queue"})
    ELSE Emits([db EXCEPT
                  !.score = sc,
                  !.game_state = UpdateGameState(state,
                      Merge(KeepClue(state), Unlocked))],
               {"game:state", "buzz:queue"})

\* resolve-current as a mutant: the turn is handed over before the clue's
\* question is looked up, so a 404 leaves it written.
ResolveCurrentTurnFirst(db, playerId, correct, nextNow, next) ==
    LET state == db.game_state
    IN
    IF playerId = NULL THEN Reply(db, 400, "playerId and correct are required")
    ELSE IF ~ClueActive(state) THEN Reply(db, 400, "No current question")
    ELSE IF /\ state.current_is_placeholder = 0
            /\ state.current_question_id \notin DOMAIN db.questions
    THEN Reply([db EXCEPT
                  !.game_state = UpdateGameState(state,
                                     [ turn_player_id |-> playerId ])],
               404, "Question not found")
    ELSE IF correct
    THEN ResolveCorrect(db, playerId, ClueDelta(state, db.questions))
    ELSE ResolveWrong(db, playerId, ClueDelta(state, db.questions), nextNow, next)

\* POST /api/admin/resolve-current, with a boolean `correct`
ResolveCurrent(db, playerId, correct, nextNow, next) ==
    LET state == db.game_state
    IN
    IF playerId = NULL THEN Reply(db, 400, "playerId and correct are required")
    ELSE IF ~ClueActive(state) THEN Reply(db, 400, "No current question")
    ELSE IF /\ state.current_is_placeholder = 0
            /\ state.current_question_id \notin DOMAIN db.questions
    THEN Reply(db, 404, "Question not found")
    ELSE IF correct
    THEN ResolveCorrect(db, playerId, ClueDelta(state, db.questions))
    ELSE ResolveWrong(db, playerId, ClueDelta(state, db.questions), nextNow, next)

\* set-turn as a mutant: the new state is not emitted.
SetTurnSilently(db, playerId) ==
    IF playerId = NULL THEN Reply(db, 400, "playerId is required")
    ELSE IF playerId \notin db.players THEN Reply(db, 404, "Player not found")
    ELSE Emits([db EXCEPT
                  !.game_state = UpdateGameState(db.game_state,
                                                 [ turn_player_id |-> playerId ])],
               {})

\* POST /api/admin/set-turn
SetTurn(db, playerId) ==
    IF playerId = NULL THEN Reply(db, 400, "playerId is required")
    ELSE IF playerId \notin db.players THEN Reply(db, 404, "Player not found")
    ELSE Emits([db EXCEPT
                  !.game_state = UpdateGameState(db.game_state,
                                                 [ turn_player_id |-> playerId ])],
               {"game:state"})

\* POST /api/admin/questions/:id/select, with a boolean `selected`
SelectQuestion(db, id, selected) ==
    IF id \notin DOMAIN db.questions THEN Reply(db, 404, "Question not found")
    ELSE Emits([db EXCEPT
                  !.questions[id].selected_for_game = IF selected THEN 1 ELSE 0],
               {})

\* The deletion of a player as a mutant: the lock is released but the turn
\* is left with the deleted player.
DeletePlayerKeepingTurn(db, id) ==
    IF id \notin db.players THEN Reply(db, 404, "Player not found")
    ELSE LET state == db.game_state
             lockPatch == IF state.last_buzz_player_id = id
                          THEN Unlocked ELSE << >>
         IN  Emits([db EXCEPT
                      !.questions = [ q \in { x \in DOMAIN db.questions :
                                               db.questions[x].player_id # id } |->
                                        db.questions[q] ],
                      !.buzz_queue = WithoutPlayer(db.buzz_queue, id),
                      !.game_state = UpdateGameState(state, lockPatch),
                      !.players = db.players \ {id},
                      !.score = [ p \in db.players \ {id} |-> db.score[p] ]],
                   {"game:state", "buzz:queue"})

\* DELETE /api/admin/players/:id
DeletePlayer(db, id) ==
    IF id \notin db.players THEN Reply(db, 404, "Player not found")
    ELSE LET state == db.game_state
             turnPatch == IF state.turn_player_id = id
                          THEN [ turn_player_id |-> NULL ] ELSE << >>
             lockPatch == IF state.last_buzz_player_id = id
                          THEN Unlocked ELSE << >>
         IN  Emits([db EXCEPT
                      !.questions = [ q \in { x \in DOMAIN db.questions :
                                               db.questions[x].player_id # id } |->
                                        db.questions[q] ],
                      !.buzz_queue = WithoutPlayer(db.buzz_queue, id),
                      !.game_state = UpdateGameState(state,
                                                     Merge(turnPatch, lockPatch)),
                      !.players = db.players \ {id},
                      !.score = [ p \in db.players \ {id} |-> db.score[p] ]],
                   {"game:state", "buzz:queue"})

\* io.on('connection') as a mutant: the new subscriber is sent the last
\* payloads emitted, not the stored values.
OnConnectionCached(db) == [ state |-> emitted_state, queue |-> emitted_queue ]

\* io.on('connection'): socket.emit('game:state', getGameState()) and
\* socket.emit('buzz:queue', listBuzzQueue()).
OnConnection(db) ==
    [ state |-> << db.game_state >>,
      queue |-> << ListBuzzQueue(db.buzz_queue, db.players) >> ]

(* ------------------------ frontend: BoardView ------------------------- *)

\* The ids of S, greatest first.
RECURSIVE Descending(_)
Descending(S) ==
    IF S = {} THEN << >>
    ELSE LET m == CHOOSE x \in S : \A y \in S : y <= x
         IN  << m >> \o Descending(S \ {m})

\* listQuestions(): the rows of questions joined with players, ORDER BY
\* created_at DESC.  Question ids are given out in creation order, so the
\* latest question has the greatest id.
ListQuestions(qs, ps) ==
    LET ids == Descending({ q \in DOMAIN qs : qs[q].player_id \in ps })
    IN  [ i \in DOMAIN ids |->
            [ id              |-> ids[i],
              category        |-> qs[ids[i]].category,
              points          |-> qs[ids[i]].points,
              selectedForGame |-> qs[ids[i]].selected_for_game,
              usedInGame      |-> qs[ids[i]].used_in_game ] ]

\* BoardView: questions.filter((q) => q.selectedForGame)
\*                     .filter((q) => q.category && q.points)
BoardSelected(list) ==
    SelectSeq(list, LAMBDA q : /\ q.selectedForGame # 0
                               /\ q.category # NullText
                               /\ q.points # NULL /\ q.points # 0)

\* The key `${q.category.trim()}|${q.points}` of the lookup map.
TileKey(q) == << Trim(q.category), q.points >>

\* The forEach body of the lookup as a mutant: the first entry of a tile
\* stays, used or not.
LookupStepFirstWins(m, q) ==
    IF TileKey(q) \notin DOMAIN m THEN (TileKey(q) :> q) @@ m ELSE m

\* The forEach body of the lookup: the first entry of a tile is kept unless
\* it is used and q is not.
LookupStep(m, q) ==
    LET key == TileKey(q)
    IN  IF key \notin DOMAIN m THEN (key :> q) @@ m
        ELSE IF m[key].usedInGame # 0 /\ q.usedInGame = 0
             THEN (key :> q) @@ m
             ELSE m

\* selected.forEach(...) from the map m on.
RECURSIVE LookupFrom(_, _)
LookupFrom(m, list) ==
    IF list = << >> THEN m
    ELSE LookupFrom(LookupStep(m, Head(list)), Tail(list))

\* BoardView's lookup: the map from tile keys to questions, built over the
\* selected questions in list order.
Lookup(list) == LookupFrom(<< >>, BoardSelected(list))

\* handlePick returns without a request.
NoRequest(db) == Reply(db, 0, "none")

\* BoardView's handlePick(cat, pts) on an interactive board, as the view
\* that has received the server's last questions:updated and game:state; the
\* outcome is that of the select-card request it makes, if it makes one.
HandlePick(db, cat, pts, forcePick, pickerPlayerId) ==
    LET lookup == Lookup(ListQuestions(db.questions, db.players))
    IN  IF ClueActive(db.game_state) /\ ~forcePick THEN NoRequest(db)
        ELSE IF << cat, pts >> \notin DOMAIN lookup
        THEN SelectCard(db, NULL, << cat, pts >>, forcePick, pickerPlayerId)
        ELSE LET q == lookup[<< cat, pts >>]
             IN  IF q.usedInGame # 0 THEN NoRequest(db)
                 ELSE SelectCard(db, q.id, << cat, pts >>, forcePick,
                                 pickerPlayerId)

(* ------------------------------ actions ------------------------------- *)

\* A handler runs to completion: the database becomes the one it leaves.
Commit(outcome) ==
    /\ players' = outcome.db.players
    /\ score' = outcome.db.score
    /\ questions' = outcome.db.questions
    /\ game_state' = outcome.db.game_state
    /\ buzz_queue' = outcome.db.buzz_queue
    /\ emitted_state' = IF outcome.sent.state # << >>
                        THEN outcome.sent.state ELSE emitted_state
    /\ emitted_queue' = IF outcome.sent.queue # << >>
                        THEN outcome.sent.queue ELSE emitted_queue

PostBuzz(ids, horizon) ==
    \E playerId \in ids, now \in Now(DB, horizon) :
        Commit(Buzz(DB, playerId, now))

PostSelectCard(qids, tiles, forces, pickers) ==
    \E questionId \in qids, tile \in tiles, force \in forces,
       pickerPlayerId \in pickers :
        Commit(SelectCard(DB, questionId, tile, force, pickerPlayerId))

\* The scores stay within the bound MaxScore.
PostResolveCurrent(ids, verdicts, horizon) ==
    \E playerId \in ids, correct \in verdicts,
       nextNow \in Now(DB, horizon), next \in DequeueChoices(buzz_queue) :
        LET outcome == ResolveCurrent(DB, playerId, correct, nextNow, next)
        IN  /\ SumAbs(outcome.db.score, outcome.db.players) <= MaxScore
            /\ Commit(outcome)

PostSkipCurrent == Commit(SkipCurrent(DB))

PostStart == Commit(Start(DB))

PostEnd == Commit(End(DB))

PostReset == Commit(Reset(DB))

PostResetBoard == Commit(ResetBoard(DB))

PostResetForNewGame == Commit(ResetForNewGame(DB))

PostUnlockBuzzer == Commit(UnlockBuzzer(DB))

PostSetQuestionReading ==
    \E reading \in BOOLEAN : Commit(SetQuestionReading(DB, reading))

PostSetTurn ==
    \E playerId \in PlayerIds \cup {NULL} : Commit(SetTurn(DB, playerId))

PostCurrentQuestion ==
    \E questionId \in QuestionIds \cup {NULL} : Commit(CurrentQuestion(DB, questionId))

PostSelectQuestion ==
    \E id \in QuestionIds, selected \in BOOLEAN : Commit(SelectQuestion(DB, id, selected))

DeleteAdminPlayer ==
    \E id \in PlayerIds : Commit(DeletePlayer(DB, id))

\* A subscriber connects and is sent the two snapshots.
IoConnection ==
    /\ emitted_state' = OnConnection(DB).state
    /\ emitted_queue' = OnConnection(DB).queue
    /\ UNCHANGED << players, score, questions, game_state, buzz_queue >>

\* Every handler, with every input.
Next ==
    \/ PostBuzz(PlayerIds \cup {NULL}, MaxTime)
    \/ PostSelectCard(QuestionIds \cup {NULL}, Tiles, BOOLEAN, PlayerIds \cup {NULL})
    \/ PostResolveCurrent(PlayerIds \cup {NULL}, BOOLEAN, MaxTime)
    \/ PostSkipCurrent
    \/ PostStart
    \/ PostEnd
    \/ PostReset
    \/ PostResetBoard
    \/ PostResetForNewGame
    \/ PostUnlockBuzzer
    \/ PostSetQuestionReading
    \/ PostSetTurn
    \/ PostCurrentQuestion
    \/ PostSelectQuestion
    \/ DeleteAdminPlayer
    \/ IoConnection

Spec == Init /\ [][Next]_vars

(* ---------------------- a round with a full queue --------------------- *)

\* NQueuePlayers players have registered, and play rounds nobody wins, on
\* tiles that the board sends without points: they buzz, and the host marks
\* every answer wrong or skips the clue.
QueueRoster == 1 .. NQueuePlayers

InitQueue ==
    /\ players = QueueRoster
    /\ score = [ p \in QueueRoster |-> 0 ]
    /\ questions = SeededQuestions
    /\ game_state = InitialGameState
    /\ buzz_queue = << >>
    /\ emitted_state = << >>
    /\ emitted_queue = << >>

NextQueue ==
    \/ PostStart
    \/ PostSelectCard({NULL}, { <<"Holidays", NULL>> }, {FALSE}, QueueRoster)
    \/ PostBuzz(QueueRoster, MaxQueueTime)
    \/ PostResolveCurrent(QueueRoster, {FALSE}, MaxQueueTime)
    \/ PostSkipCurrent

SpecQueue == InitQueue /\ [][NextQueue]_vars

(* ----------------------- rounds on a full board ----------------------- *)

BoardQuestionIds == 1 .. MaxEntries

\* The category of the submitted questions: the routes that write a
\* category store it trimmed.
BoardCategory == "Disney & Pixar"

\* The points a submitted question may carry: two rows of the board, or none.
BoardPoints == {200, 400, NULL}

\* The tiles of the board for that category that a question may sit on.
BoardTiles == { << BoardCategory, 200 >>, << BoardCategory, 400 >> }

\* The house has submitted MaxEntries questions, each on one of the point
\* values or on none, and the admin has selected them all for the game.
InitBoard ==
    /\ players = Roster
    /\ score = [ p \in Roster |-> 0 ]
    /\ \E pts \in [ BoardQuestionIds -> BoardPoints ] :
           questions = [ q \in BoardQuestionIds |->
                           [ player_id |-> House, category |-> BoardCategory,
                             points |-> pts[q],
                             selected_for_game |-> 1, used_in_game |-> 0 ] ]
    /\ game_state = InitialGameState
    /\ buzz_queue = << >>
    /\ emitted_state = << >>
    /\ emitted_queue = << >>

\* A tile of the board is clicked.
BoardHandlePick ==
    \E tile \in BoardTiles, forcePick \in BOOLEAN :
        Commit(HandlePick(DB, tile[1], tile[2], forcePick, NULL))

\* The admin selects a question for the game, or takes it out.
AdminSelectQuestion ==
    \E id \in BoardQuestionIds, selected \in BOOLEAN :
        Commit(SelectQuestion(DB, id, selected))

NextBoard ==
    \/ BoardHandlePick
    \/ AdminSelectQuestion
    \/ PostSkipCurrent
    \/ PostResetBoard

SpecBoard == InitBoard /\ [][NextBoard]_vars

(* ------------------------------ claims -------------------------------- *)

PlayerInputs == PlayerIds \cup {NULL}

QuestionInputs == QuestionIds \cup {NULL}

\* A buzz of a registered player passes the handler's checks.
Accepting(db) ==
    /\ db.game_state.status = "active"
    /\ ClueActive(db.game_state)
    /\ db.game_state.question_reading = 0

LockOf(gs) == << gs.buzzer_locked, gs.last_buzz_player_id, gs.last_buzz_time >>

ClueOf(gs) ==
    << gs.current_question_id, gs.current_category, gs.current_points,
       gs.current_is_placeholder, gs.current_clue_text, gs.current_answer_text >>

NotLocked == << 0, NULL, NULL >>

\* C1: when two distinct registered players buzz while the game is active,
\* a clue is active and read, and the buzzer is unlocked, then in either
\* order of the two handlers the first one is granted the lock and the
\* second one is enqueued behind it: the lock is never granted twice.
C1_ExactlyOneHolder ==
    (Accepting(DB) /\ game_state.buzzer_locked = 0) =>
        \A a \in players : \A b \in players \ {a} : \A t1 \in Now(DB, MaxTime) :
            LET first == Buzz(DB, a, t1)
            IN  \A t2 \in Now(first.db, MaxTime) :
                    LET second == Buzz(first.db, b, t2)
                    IN  /\ first.resp.code = 200
                        /\ ~first.resp.queued
                        /\ LockOf(first.db.game_state) = << 1, a, t1 >>
                        /\ second.resp.code = 200
                        /\ LockOf(second.db.game_state) = << 1, a, t1 >>
                        /\ b \in PlayerIdsOf(second.db.buzz_queue)
                        /\ b \notin PlayerIdsOf(buzz_queue) =>
                              /\ second.resp.queued
                              /\ second.db.buzz_queue =
                                     Append(buzz_queue,
                                            [player_id |-> b, buzz_time |-> t2])

\* C1 witness: two buzzes of the same instant, one holds the lock and the
\* other is the queue.
C1_Witness ==
    /\ Accepting(DB)
    /\ game_state.buzzer_locked = 1
    /\ game_state.last_buzz_player_id \in players
    /\ Len(buzz_queue) = 1
    /\ buzz_queue[1].player_id \in players \ {game_state.last_buzz_player_id}
    /\ buzz_queue[1].buzz_time = game_state.last_buzz_time

\* C2: while the buzzer is locked to player P no buzz changes the lock
\* (nor anything else of the game state); P's own buzz changes nothing and,
\* when it passes the handler's checks, is answered queued=false,
\* 'already_current'; any other buzz at most appends that player to the queue.
C2_LockedBuzz ==
    (game_state.buzzer_locked = 1 /\ game_state.last_buzz_player_id # NULL) =>
        \A playerId \in PlayerInputs : \A now \in Now(DB, MaxTime) :
            LET o == Buzz(DB, playerId, now)
            IN  /\ LockOf(o.db.game_state) = LockOf(game_state)
                /\ o.db.game_state = game_state
                /\ o.db.players = players
                /\ o.db.score = score
                /\ o.db.questions = questions
                /\ IF playerId = game_state.last_buzz_player_id
                   THEN /\ o.db.buzz_queue = buzz_queue
                        /\ o.resp.code = 200 =>
                              ~o.resp.queued /\ o.resp.reason = "already_current"
                        /\ (Accepting(DB) /\ playerId \in players) =>
                              o.resp.code = 200
                   ELSE \/ o.db.buzz_queue = buzz_queue
                        \/ /\ playerId \in players
                           /\ o.db.buzz_queue =
                                  Append(buzz_queue,
                                         [player_id |-> playerId, buzz_time |-> now])

\* C2 witness: P holds the lock and a later buzz of another player waits.
C2_Witness ==
    /\ Accepting(DB)
    /\ game_state.buzzer_locked = 1
    /\ game_state.last_buzz_player_id \in players
    /\ Len(buzz_queue) = 1
    /\ buzz_queue[1].player_id # game_state.last_buzz_player_id
    /\ buzz_queue[1].buzz_time > game_state.last_buzz_time

\* C3 as stated: in every reachable state buzzer_locked implies that
\* last_buzz_player_id is set and that a clue is active.
C3_LockedImpliesHolderAndClue ==
    game_state.buzzer_locked = 1 =>
        game_state.last_buzz_player_id # NULL /\ ClueActive(game_state)

\* C3 amended: in every reachable state whose status is not 'ended',
\* buzzer_locked implies that last_buzz_player_id is set and that a clue is
\* active (end locks the buzzer whatever the lock holder and the clue are).
C3_LockedUnlessEnded ==
    (game_state.buzzer_locked = 1 /\ game_state.status # "ended") =>
        game_state.last_buzz_player_id # NULL /\ ClueActive(game_state)

\* C3 witness: the buzzer is locked to a player on a catalog question, in a
\* game that has not ended.
C3_Witness ==
    /\ game_state.buzzer_locked = 1
    /\ game_state.status = "active"
    /\ game_state.last_buzz_player_id \in players
    /\ game_state.current_question_id # NULL
    /\ game_state.current_is_placeholder = 0

\* What one call of resolve-current with correct=false may leave, whoever the
\* host names as the player.
WrongOutcomes(db, horizon) ==
    { ResolveCurrent(db, p, FALSE, n, i) :
        p \in db.players, n \in Now(db, horizon), i \in DequeueChoices(db.buzz_queue) }

Holds(db, playerId) ==
    /\ db.game_state.buzzer_locked = 1
    /\ db.game_state.last_buzz_player_id = playerId

\* C4: when A, B and C buzz in that order, at times t1 < t2 < t3, while the
\* buzzer is locked to another player, successive wrong resolutions hand
\* the lock to A, then to B, then to C, and the wrong resolution made on the
\* empty queue unlocks the buzzer.
C4_FifoDequeue ==
    (/\ Accepting(DB)
     /\ game_state.buzzer_locked = 1
     /\ game_state.last_buzz_player_id \in players
     /\ buzz_queue = << >>) =>
        LET H == game_state.last_buzz_player_id
        IN
        \A A \in players \ {H} : \A B \in players \ {H, A} :
        \A C \in players \ {H, A, B} :
        \A t1 \in Now(DB, MaxQueueTime) : \A t2 \in Now(DB, MaxQueueTime) :
        \A t3 \in Now(DB, MaxQueueTime) :
            (t1 < t2 /\ t2 < t3) =>
                LET s == Buzz(Buzz(Buzz(DB, A, t1).db, B, t2).db, C, t3).db
                IN
                /\ [ i \in DOMAIN s.buzz_queue |-> s.buzz_queue[i].player_id ]
                       = << A, B, C >>
                /\ Holds(s, H)
                /\ WrongOutcomes(s, MaxQueueTime) # {}
                /\ \A r1 \in WrongOutcomes(s, MaxQueueTime) :
                    /\ r1.resp.code = 200
                    /\ Holds(r1.db, A)
                    /\ \A r2 \in WrongOutcomes(r1.db, MaxQueueTime) :
                        /\ r2.resp.code = 200
                        /\ Holds(r2.db, B)
                        /\ \A r3 \in WrongOutcomes(r2.db, MaxQueueTime) :
                            /\ r3.resp.code = 200
                            /\ Holds(r3.db, C)
                            /\ r3.db.buzz_queue = << >>
                            /\ \A r4 \in WrongOutcomes(r3.db, MaxQueueTime) :
                                /\ r4.resp.code = 200
                                /\ LockOf(r4.db.game_state) = NotLocked
                                /\ r4.db.buzz_queue = << >>
                                /\ ClueOf(r4.db.game_state) = ClueOf(game_state)

\* C4 witness: three players wait behind the lock holder, their buzz times
\* strictly increasing.
C4_Witness ==
    /\ Accepting(DB)
    /\ game_state.buzzer_locked = 1
    /\ Len(buzz_queue) = 3
    /\ buzz_queue[1].buzz_time < buzz_queue[2].buzz_time
    /\ buzz_queue[2].buzz_time < buzz_queue[3].buzz_time

\* C5 as stated: each player id appears at most once in the buzz queue, and
\* a buzz of a queued player that passes the handler's checks is answered
\* queued=false, 'already_queued', and leaves the queue unchanged.
C5_QueueUniqueness ==
    /\ \A i \in DOMAIN buzz_queue : \A j \in DOMAIN buzz_queue :
           buzz_queue[i].player_id = buzz_queue[j].player_id => i = j
    /\ Accepting(DB) =>
           \A playerId \in PlayerIdsOf(buzz_queue) \cap players :
           \A now \in Now(DB, MaxTime) :
               LET o == Buzz(DB, playerId, now)
               IN  /\ ~o.resp.queued
                   /\ o.resp.reason = "already_queued"
                   /\ o.db.buzz_queue = buzz_queue

C7_CorrectTransfersTurn ==
    \A playerId \in PlayerIds :
    \A nextNow \in Now(DB, MaxTime) : \A next \in DequeueChoices(buzz_queue) :
        LET o == ResolveCurrent(DB, playerId, TRUE, nextNow, next)
        IN  o.resp.code = 200 =>
                /\ o.db.game_state.turn_player_id = playerId
                /\ ClueOf(o.db.game_state) =
                       << NULL, NullText, NULL, 0, NullText, NullText >>
                /\ LockOf(o.db.game_state) = NotLocked
                /\ o.db.buzz_queue = << >>

\* C7 witness: a player has scored and has the turn, with no clue, no lock
\* and no queue.
C7_Witness ==
    /\ game_state.status = "active"
    /\ game_state.turn_player_id \in players
    /\ score[game_state.turn_player_id] > 0
    /\ ~ClueActive(game_state)
    /\ LockOf(game_state) = NotLocked
    /\ buzz_queue = << >>

\* C8: after a resolve-current with correct=false that succeeds, the clue
\* columns are as before; if the queue was not empty, a player whose buzz
\* time no queued buzz precedes has left the queue and holds the lock, with
\* a last_buzz_time no older than any time stored before; if the queue was
\* empty the buzzer is unlocked without a holder.
C8_WrongKeepsClue ==
    \A playerId \in players :
    \A nextNow \in Now(DB, MaxQueueTime) : \A next \in DequeueChoices(buzz_queue) :
        LET o == ResolveCurrent(DB, playerId, FALSE, nextNow, next)
            q == buzz_queue
            g == o.db.game_state
        IN  o.resp.code = 200 =>
                /\ ClueOf(g) = ClueOf(game_state)
                /\ ClueActive(g)
                /\ IF q # << >>
                   THEN /\ g.buzzer_locked = 1
                        /\ \E i \in DOMAIN q :
                               /\ g.last_buzz_player_id = q[i].player_id
                               /\ \A j \in DOMAIN q : q[i].buzz_time <= q[j].buzz_time
                               /\ Len(o.db.buzz_queue) = Len(q) - 1
                               /\ \A j \in DOMAIN o.db.buzz_queue :
                                      o.db.buzz_queue[j] =
                                          IF j < i THEN q[j] ELSE q[j + 1]
                        /\ g.last_buzz_time = nextNow
                        /\ game_state.last_buzz_time # NULL =>
                               game_state.last_buzz_time <= g.last_buzz_time
                        /\ \A j \in DOMAIN q : q[j].buzz_time <= g.last_buzz_time
                   ELSE /\ LockOf(g) = NotLocked
                        /\ o.db.buzz_queue = << >>

\* C8 witness: the lock holder's time is later than that of a buzz still
\* queued, which only a wrong resolution brings about, and two players wait.
C8_Witness ==
    /\ ClueActive(game_state)
    /\ game_state.buzzer_locked = 1
    /\ Len(buzz_queue) = 2
    /\ buzz_queue[1].buzz_time < game_state.last_buzz_time

C10_ClueConflict ==
    ClueActive(game_state) =>
        \A questionId \in QuestionInputs : \A tile \in Tiles :
        \A picker \in PlayerInputs :
            LET o == SelectCard(DB, questionId, tile, FALSE, picker)
            IN  /\ o.resp.code = 409
                /\ o.db = DB

\* C10 witness: a clue is active, the buzzer is locked, a player is queued
\* and the catalog question is used.
C10_Witness ==
    /\ ClueActive(game_state)
    /\ game_state.buzzer_locked = 1
    /\ buzz_queue # << >>
    /\ DefaultQ \in DOMAIN questions
    /\ questions[DefaultQ].used_in_game = 1

\* The errors of a buzz that the handler answers for the state of the game
\* (not for its input): game not active, no clue, reading window.
PreconditionErrors ==
    { "Game is not active", "No active clue", "Question is still being read" }

C12_BuzzPreconditions ==
    \A playerId \in PlayerInputs : \A now \in Now(DB, MaxTime) :
        LET o == Buzz(DB, playerId, now)
        IN  (\/ playerId \notin players
             \/ game_state.status # "active"
             \/ ~ClueActive(game_state)) =>
                /\ o.resp.code \in {400, 404}
                /\ ~o.resp.queued
                /\ o.db.game_state = game_state
                /\ o.db.buzz_queue = buzz_queue
                /\ o.db = DB

\* C12 witness: the game has ended over a clue that is still active and not
\* being read, so that the status alone refuses a registered player's buzz.
C12_Witness ==
    /\ game_state.status = "ended"
    /\ ClueActive(game_state)
    /\ game_state.question_reading = 0
    /\ players # {}

\* C13: every select-card that succeeds, for an empty tile or a catalog
\* question, forced or not, leaves the buzz queue empty and the buzzer
\* unlocked, last_buzz_player_id and last_buzz_time null.
C13_SelectCardClearsBuzzer ==
    \A questionId \in QuestionInputs : \A tile \in Tiles :
    \A force \in BOOLEAN : \A picker \in PlayerInputs :
        LET o == SelectCard(DB, questionId, tile, force, picker)
        IN  o.resp.code = 200 =>
                /\ o.db.buzz_queue = << >>
                /\ LockOf(o.db.game_state) = NotLocked

\* C13 witness: a player holds the lock, another waits, and a forced
\* select-card of the catalog question succeeds over them.
C13_Witness ==
    /\ game_state.buzzer_locked = 1
    /\ game_state.last_buzz_player_id \in players
    /\ buzz_queue # << >>
    /\ SelectCard(DB, DefaultQ, << "Holidays", NULL >>, TRUE, NULL).resp.code = 200

\* What one call of any handler but the board resets (reset-board, start)
\* may leave.
OutcomesButBoardResets(db) ==
    { Buzz(db, p, n) : p \in PlayerInputs, n \in Now(db, MaxTime) }
    \cup { SelectCard(db, q, t, f, p) :
             q \in QuestionInputs, t \in Tiles, f \in BOOLEAN, p \in PlayerInputs }
    \cup { ResolveCurrent(db, p, c, n, i) :
             p \in PlayerInputs, c \in BOOLEAN, n \in Now(db, MaxTime),
             i \in DequeueChoices(db.buzz_queue) }
    \cup { SkipCurrent(db), End(db), Reset(db), ResetForNewGame(db),
           UnlockBuzzer(db) }
    \cup { SetQuestionReading(db, r) : r \in BOOLEAN }
    \cup { SetTurn(db, p) : p \in PlayerInputs }
    \cup { CurrentQuestion(db, q) : q \in QuestionInputs }
    \cup { SelectQuestion(db, q, sel) : q \in QuestionIds, sel \in BOOLEAN }
    \cup { DeletePlayer(db, p) : p \in PlayerIds }

\* C14: a select-card with a questionId and without force succeeds only for
\* a catalog row that exists, is selected for the game and is not used; one
\* that passes the clue and turn checks is otherwise refused with 404
\* 'Question not found', 400 'Question not selected' or 409 'Card already
\* used'.  On success the row is used and the clue is that question, not a
\* placeholder.  A row once used stays used, as long as it exists, through
\* every operation but a board reset (reset-board, start): so without
\* force no row is activated twice between two board resets.
C14_SelectQuestionCard ==
    /\ \A questionId \in QuestionIds : \A tile \in Tiles :
       \A picker \in PlayerInputs :
           LET o      == SelectCard(DB, questionId, tile, FALSE, picker)
               exists == questionId \in DOMAIN questions
               passes == /\ ~ClueActive(game_state)
                         /\ \/ game_state.turn_player_id = NULL
                            \/ picker = game_state.turn_player_id
           IN  /\ o.resp.code = 200 =>
                      /\ exists
                      /\ questions[questionId].selected_for_game = 1
                      /\ questions[questionId].used_in_game = 0
                      /\ o.db.questions =
                             [questions EXCEPT ![questionId].used_in_game = 1]
                      /\ o.db.game_state.current_question_id = questionId
                      /\ o.db.game_state.current_is_placeholder = 0
               /\ passes =>
                      o.resp.error =
                          IF ~exists THEN "Question not found"
                          ELSE IF questions[questionId].selected_for_game = 0
                          THEN "Question not selected"
                          ELSE IF questions[questionId].used_in_game # 0
                          THEN "Card already used"
                          ELSE "none"
               /\ o.resp.error = "Question not found" => o.resp.code = 404
               /\ o.resp.error = "Question not selected" => o.resp.code = 400
               /\ o.resp.error = "Card already used" => o.resp.code = 409
               /\ o.resp.error = "none" <=> o.resp.code = 200
    /\ \A q \in DOMAIN questions :
           questions[q].used_in_game = 1 =>
               \A o \in OutcomesButBoardResets(DB) :
                   q \in DOMAIN o.db.questions =>
                       o.db.questions[q].used_in_game = 1

\* C14 witness: the catalog question has been played and no clue is active;
\* selecting it again without force is refused as already used.
C14_Witness ==
    /\ ~ClueActive(game_state)
    /\ DefaultQ \in DOMAIN questions
    /\ questions[DefaultQ].used_in_game = 1
    /\ SelectCard(DB, DefaultQ, << "Holidays", NULL >>, FALSE,
                  game_state.turn_player_id).resp.error = "Card already used"

\* The (category, points) of an empty tile: the tiles of the board, the
\* covered tile written in another case and padded, the covered category
\* with points the pack lacks, and a request without category.
TileInputs ==
    Tiles \cup { << " disney & pixar ", 200 >>, << "Disney & Pixar", 400 >>,
                 << NullText, 200 >> }

\* C15: a select-card without questionId, forced or not, succeeds exactly
\* when the clue check and the turn check let it through, and then the clue
\* is a placeholder (flag 1, question id null) of the requested category
\* (trimmed) and points; its text and answer are those of the default-pack
\* entry of that category (whatever the case) and points, and both 'N/A'
\* when there is none; the catalog, used_in_game included, is unchanged.
C15_EmptyTilePlaceholder ==
    \A tile \in TileInputs : \A force \in BOOLEAN : \A picker \in PlayerInputs :
        LET o       == SelectCard(DB, NULL, tile, force, picker)
            g       == o.db.game_state
            covered == /\ tile[2] = 200
                       /\ tile[1] \in { "Disney & Pixar", " disney & pixar " }
            passes  == \/ force
                       \/ /\ ~ClueActive(game_state)
                          /\ \/ game_state.turn_player_id = NULL
                             \/ picker = game_state.turn_player_id
        IN  /\ o.resp.code = 200 <=> passes
            /\ o.resp.code = 200 =>
                   /\ g.current_is_placeholder = 1
                   /\ g.current_question_id = NULL
                   /\ g.current_category =
                          IF tile[1] = " disney & pixar " THEN "disney & pixar"
                          ELSE tile[1]
                   /\ g.current_points = tile[2]
                   /\ g.current_clue_text = IF covered THEN "Frozen" ELSE "N/A"
                   /\ g.current_answer_text = IF covered THEN "Olaf" ELSE "N/A"
                   /\ o.db.questions = questions

\* C15 witness: the placeholder of the covered tile is the clue, with the
\* default pack's text and answer, while the catalog question is unused.
C15_Witness ==
    /\ game_state.current_is_placeholder = 1
    /\ game_state.current_question_id = NULL
    /\ game_state.current_clue_text = "Frozen"
    /\ game_state.current_answer_text = "Olaf"
    /\ DefaultQ \in DOMAIN questions
    /\ questions[DefaultQ].used_in_game = 0

\* C16: skip-current is refused and changes nothing when no clue is active;
\* when a clue is active it clears the clue, empties the queue and releases
\* the lock, and leaves turn_player_id, status and every score as they were.
C16_SkipCurrent ==
    LET o == SkipCurrent(DB)
        g == o.db.game_state
    IN  IF ~ClueActive(game_state)
        THEN /\ o.resp.code = 400
             /\ o.db = DB
        ELSE /\ o.resp.code = 200
             /\ ClueOf(g) = << NULL, NullText, NULL, 0, NullText, NullText >>
             /\ ~ClueActive(g)
             /\ o.db.buzz_queue = << >>
             /\ LockOf(g) = NotLocked
             /\ g.turn_player_id = game_state.turn_player_id
             /\ g.status = game_state.status
             /\ o.db.players = players
             /\ o.db.score = score

\* C16 witness: a clue is active, a player holds the lock and another waits,
\* it is somebody's turn and somebody has scored: skip-current has a clue, a
\* lock and a queue to clear and a turn and a score to keep.
C16_Witness ==
    /\ ClueActive(game_state)
    /\ game_state.buzzer_locked = 1
    /\ buzz_queue # << >>
    /\ game_state.turn_player_id \in players
    /\ \E p \in players : score[p] # 0
    /\ SkipCurrent(DB).resp.code = 200

\* C17 as stated: start, end, reset and reset-board, called in any reachable
\* state, each leave no clue active, the buzz queue empty and no lock holder.
C17_LifecycleClears ==
    \A o \in { Start(DB), End(DB), Reset(DB), ResetBoard(DB) } :
        /\ o.resp.code = 200
        /\ ~ClueActive(o.db.game_state)
        /\ o.db.buzz_queue = << >>
        /\ o.db.game_state.last_buzz_player_id = NULL

\* What one call of any handler but start may leave.
OutcomesButStart(db) == OutcomesButBoardResets(db) \cup { ResetBoard(db) }

\* C18: end leaves status 'ended' and the buzzer locked.  While the status
\* is not 'active', as it is from end until the next start, the queue is
\* empty and every handler but start, unlock-buzzer included, leaves the
\* status other than 'active' and the queue empty and makes no player the
\* lock holder; every buzz is refused and changes nothing.
C18_EndLockout ==
    /\ LET e == End(DB)
       IN  /\ e.resp.code = 200
           /\ e.db.game_state.status = "ended"
           /\ e.db.game_state.buzzer_locked = 1
    /\ game_state.status # "active" =>
           /\ buzz_queue = << >>
           /\ \A o \in OutcomesButStart(DB) :
                  /\ o.db.game_state.status # "active"
                  /\ o.db.buzz_queue = << >>
                  /\ o.db.game_state.last_buzz_player_id
                         \in { NULL, game_state.last_buzz_player_id }
           /\ \A playerId \in PlayerInputs : \A now \in Now(DB, MaxTime) :
                  LET b == Buzz(DB, playerId, now)
                  IN  b.resp.code # 200 /\ b.db = DB

\* C18 witness: the game has ended and unlock-buzzer has since opened the
\* buzzer over a clue that is still active and not being read.
C18_Witness ==
    /\ game_state.status = "ended"
    /\ game_state.buzzer_locked = 0
    /\ ClueActive(game_state)
    /\ game_state.question_reading = 0
    /\ players # {}

\* C19 as stated: reset-board leaves every catalog row unused, no clue
\* active, the buzzer unlocked without a holder and the queue empty, and
\* leaves status, turn_player_id and every score as they were.
C19_ResetBoard ==
    LET o == ResetBoard(DB)
        g == o.db.game_state
    IN  /\ o.resp.code = 200
        /\ DOMAIN o.db.questions = DOMAIN questions
        /\ \A q \in DOMAIN questions : o.db.questions[q].used_in_game = 0
        /\ ~ClueActive(g)
        /\ LockOf(g) = NotLocked
        /\ o.db.buzz_queue = << >>
        /\ g.status = game_state.status
        /\ g.turn_player_id = game_state.turn_player_id
        /\ o.db.players = players
        /\ o.db.score = score

\* The part of the database idempotence is claimed of: the game state, the
\* queue and the catalog with its used_in_game flags.
CoreOf(db) == << db.game_state, db.buzz_queue, db.questions >>

\* C20: from every reachable state, reset-board, start, end and reset
\* succeed when called twice in a row, and the game state, the queue and
\* the catalog after the second call are those after the first.
C20_LifecycleIdempotent ==
    /\ LET first == ResetBoard(DB) second == ResetBoard(first.db)
       IN  /\ first.resp.code = 200 /\ second.resp.code = 200
           /\ CoreOf(second.db) = CoreOf(first.db)
    /\ LET first == Start(DB) second == Start(first.db)
       IN  /\ first.resp.code = 200 /\ second.resp.code = 200
           /\ CoreOf(second.db) = CoreOf(first.db)
    /\ LET first == End(DB) second == End(first.db)
       IN  /\ first.resp.code = 200 /\ second.resp.code = 200
           /\ CoreOf(second.db) = CoreOf(first.db)
    /\ LET first == Reset(DB) second == Reset(first.db)
       IN  /\ first.resp.code = 200 /\ second.resp.code = 200
           /\ CoreOf(second.db) = CoreOf(first.db)

\* C20 witness: a game in play, with a used catalog question as the clue, a
\* lock holder, a waiting player and a turn: each of the four operations
\* changes the state when first called.
C20_Witness ==
    /\ game_state.status = "active"
    /\ game_state.current_question_id # NULL
    /\ game_state.buzzer_locked = 1
    /\ buzz_queue # << >>
    /\ game_state.turn_player_id # NULL
    /\ \A o \in { ResetBoard(DB), Start(DB), End(DB), Reset(DB) } :
           CoreOf(o.db) # CoreOf(DB)

\* What one call of buzz, select-card, skip-current, unlock-buzzer,
\* set-turn, start, end, reset or reset-board may leave.
OutcomesButResolve(db) ==
    { Buzz(db, p, n) : p \in PlayerInputs, n \in Now(db, MaxTime) }
    \cup { SelectCard(db, q, t, f, p) :
             q \in QuestionInputs, t \in Tiles, f \in BOOLEAN, p \in PlayerInputs }
    \cup { SetTurn(db, p) : p \in PlayerInputs }
    \cup { SkipCurrent(db), UnlockBuzzer(db), Start(db), End(db), Reset(db),
           ResetBoard(db) }

\* C21: buzz, select-card, skip-current, unlock-buzzer, set-turn, start,
\* end, reset and reset-board leave every player registered and every
\* player's score as it was; reset leaves status 'waiting', no clue, no
\* turn, no lock and no queue, with the roster and the scores as they were.
C21_ScoresOnlyByResolve ==
    /\ \A o \in OutcomesButResolve(DB) :
           \A p \in players : p \in o.db.players /\ o.db.score[p] = score[p]
    /\ LET o == Reset(DB)
           g == o.db.game_state
       IN  /\ o.resp.code = 200
           /\ g.status = "waiting"
           /\ ~ClueActive(g)
           /\ g.turn_player_id = NULL
           /\ LockOf(g) = NotLocked
           /\ o.db.buzz_queue = << >>
           /\ o.db.players = players
           /\ o.db.score = score

\* C21 witness: a game in play with scores won and lost, a clue, a lock
\* holder, a waiting player and a turn, which reset clears around the scores.
C21_Witness ==
    /\ game_state.status = "active"
    /\ ClueActive(game_state)
    /\ game_state.buzzer_locked = 1
    /\ buzz_queue # << >>
    /\ game_state.turn_player_id \in players
    /\ \E p \in players : score[p] > 0
    /\ Reset(DB).db.game_state # game_state

\* What one call of buzz, resolve-current, skip-current or select-card may
\* leave.
PlayOutcomes(db) ==
    { Buzz(db, p, n) : p \in PlayerInputs, n \in Now(db, MaxTime) }
    \cup { ResolveCurrent(db, p, c, n, i) :
             p \in PlayerInputs, c \in BOOLEAN, n \in Now(db, MaxTime),
             i \in DequeueChoices(db.buzz_queue) }
    \cup { SkipCurrent(db) }
    \cup { SelectCard(db, q, t, f, p) :
             q \in QuestionInputs, t \in Tiles, f \in BOOLEAN, p \in PlayerInputs }

\* C22: a buzz, resolve-current, skip-current or select-card that answers
\* with an error (400, 403, 404 or 409) leaves the game state, the queue,
\* every score and every used_in_game flag as they were.
C22_ErrorsChangeNothing ==
    \A o \in PlayOutcomes(DB) :
        /\ o.resp.code \in {200, 400, 403, 404, 409}
        /\ o.resp.code # 200 =>
               /\ o.db.game_state = game_state
               /\ o.db.buzz_queue = buzz_queue
               /\ o.db.players = players
               /\ o.db.score = score
               /\ o.db.questions = questions

\* C22 witness: the clue's catalog question has been deleted with the player
\* who owned it, so that resolve-current for a remaining player is refused
\* with 404 after its other checks have passed.
C22_Witness ==
    /\ ClueActive(game_state)
    /\ game_state.current_is_placeholder = 0
    /\ game_state.current_question_id \notin DOMAIN questions
    /\ \E p \in players : ResolveCurrent(DB, p, TRUE, 0, 0).resp.code = 404

\* What one call of any handler may leave.
AllOutcomes(db) == OutcomesButStart(db) \cup { Start(db) }

\* C23: after every operation the last 'game:state' payload emitted is the
\* stored game state and the last 'buzz:queue' payload is the stored queue
\* (before the first emit, both are as created); every handler that
\* changes the game state emits the state it leaves, and every handler
\* that changes the queue emits the queue it leaves.
C23_SnapshotsFollowState ==
    /\ IF emitted_state = << >> THEN game_state = InitialGameState
       ELSE emitted_state = << game_state >>
    /\ IF emitted_queue = << >> THEN buzz_queue = << >>
       ELSE emitted_queue = << buzz_queue >>
    /\ \A o \in AllOutcomes(DB) :
           /\ o.db.game_state # game_state =>
                  o.sent.state = << o.db.game_state >>
           /\ o.db.buzz_queue # buzz_queue =>
                  o.sent.queue = << o.db.buzz_queue >>

\* C23 witness: a player holds the lock and another waits, after a turn was
\* set; the subscribers have been sent that state and that queue.
C23_Witness ==
    /\ game_state.buzzer_locked = 1
    /\ game_state.turn_player_id \in players
    /\ buzz_queue # << >>
    /\ emitted_state = << game_state >>
    /\ emitted_queue = << buzz_queue >>

\* C24: a subscriber that connects in any reachable state is sent a
\* 'game:state' payload equal to the stored game state and a 'buzz:queue'
\* payload equal to the stored queue.
C24_SnapshotOnConnect ==
    /\ OnConnection(DB).state = << game_state >>
    /\ OnConnection(DB).queue = << buzz_queue >>

\* C24 witness: a subscriber connects in the middle of a game, while a
\* player holds the lock on a clue and another waits in the queue.
C24_Witness ==
    /\ game_state.status = "active"
    /\ ClueActive(game_state)
    /\ game_state.buzzer_locked = 1
    /\ Len(buzz_queue) = 1
    /\ Len(OnConnection(DB).queue[1]) = 1

\* What one call may leave of the handlers that are neither resolve-current,
\* skip-current, unlock-buzzer, select-card, start, reset, reset-board,
\* reset-for-new-game nor the deletion of player P: buzz, end, set-turn,
\* set-question-reading, current-question, the selection of a question and
\* the deletion of another player.
OutcomesKeepingLock(db, P) ==
    { Buzz(db, p, n) : p \in PlayerInputs, n \in Now(db, MaxTime) }
    \cup { End(db) }
    \cup { SetTurn(db, p) : p \in PlayerInputs }
    \cup { SetQuestionReading(db, r) : r \in BOOLEAN }
    \cup { CurrentQuestion(db, q) : q \in QuestionInputs }
    \cup { SelectQuestion(db, q, sel) : q \in QuestionIds, sel \in BOOLEAN }
    \cup { DeletePlayer(db, p) : p \in PlayerIds \ {P} }

\* C25 as stated: while player P holds the lock, every operation other than
\* resolve, skip, unlockBuzzer, selectCard, start, reset, resetBoard and
\* the deletion of P leaves P the lock holder.
C25_LockHeldUntilListed ==
    (game_state.buzzer_locked = 1 /\ game_state.last_buzz_player_id # NULL) =>
        LET P == game_state.last_buzz_player_id
        IN  \A o \in OutcomesKeepingLock(DB, P) \cup { ResetForNewGame(DB) } :
                Holds(o.db, P)

\* C25 amended: while player P holds the lock, every operation other than
\* resolve, skip, unlockBuzzer, selectCard, start, reset,
\* reset-for-new-game, resetBoard and the deletion of P leaves P the lock
\* holder, at whatever time it is called; a connecting subscriber changes
\* nothing, and nothing else ever runs.
C25_LockHeldUntilReleased ==
    (game_state.buzzer_locked = 1 /\ game_state.last_buzz_player_id # NULL) =>
        LET P == game_state.last_buzz_player_id
        IN  \A o \in OutcomesKeepingLock(DB, P) :
                /\ Holds(o.db, P)
                /\ o.db.game_state.last_buzz_time = game_state.last_buzz_time

\* C25 witness: the game was ended while a player held the lock, and that
\* player holds it still.
C25_Witness ==
    /\ game_state.status = "ended"
    /\ game_state.buzzer_locked = 1
    /\ game_state.last_buzz_player_id \in players
    /\ game_state.last_buzz_time < MaxTime

\* updateGameState(patch) has done to row gs what the patch says: the row
\* it returns has every column, the patch's value in the columns the patch
\* names, and the old value in every other.
PatchApplied(gs, patch) ==
    LET state == UpdateGameState(gs, patch)
    IN  /\ DOMAIN state = DOMAIN InitialGameState
        /\ \A k \in DOMAIN patch : state[k] = patch[k]
        /\ \A k \in DOMAIN gs \ DOMAIN patch : state[k] = gs[k]

\* C26: updateGameState(patch) sets every column the patch names to the
\* patch's value and leaves every other column of the row as it was; what
\* it returns is the whole row; the empty patch returns the row unchanged;
\* and table game_state holds its one row, with all its columns, in every
\* reachable state.  The patches are of the shapes the server passes.
C26_UpdateGameState ==
    /\ DOMAIN game_state = DOMAIN InitialGameState
    /\ UpdateGameState(game_state, << >>) = game_state
    /\ PatchApplied(game_state, << >>)
    /\ PatchApplied(game_state, Unlocked)
    /\ PatchApplied(game_state, NoClue)
    /\ PatchApplied(game_state, Merge(NoClue, Unlocked))
    /\ PatchApplied(game_state, [ status |-> "ended", buzzer_locked |-> 1 ])
    /\ \A r \in {0, 1} : PatchApplied(game_state, [ question_reading |-> r ])
    /\ \A q \in QuestionIds :
           PatchApplied(game_state, [ current_question_id |-> q ])
    /\ \A p \in PlayerInputs :
           PatchApplied(game_state, [ turn_player_id |-> p ])
    /\ \A p \in PlayerIds, n \in Now(DB, MaxTime) :
           PatchApplied(game_state, [ buzzer_locked       |-> 1,
                                      last_buzz_player_id |-> p,
                                      last_buzz_time      |-> n ])
    /\ emitted_state # << >> =>
           DOMAIN emitted_state[1] = DOMAIN InitialGameState

\* C26 witness: a row with the status, the clue, the turn, the lock and the
\* reading flag all off their defaults, which a patch of one column changes.
C26_Witness ==
    /\ game_state.status = "active"
    /\ game_state.current_question_id # NULL
    /\ game_state.turn_player_id # NULL
    /\ game_state.buzzer_locked = 1
    /\ game_state.question_reading = 1
    /\ UpdateGameState(game_state, [ turn_player_id |-> NULL ]) # game_state

\* C27: unlock-buzzer answers 200 in every state; it leaves the buzzer
\* unlocked with no lock holder and the queue empty, and the clue columns,
\* status and turn_player_id as they were.
C27_UnlockBuzzer ==
    LET o == UnlockBuzzer(DB)
        g == o.db.game_state
    IN  /\ o.resp.code = 200
        /\ g.buzzer_locked = 0
        /\ g.last_buzz_player_id = NULL
        /\ o.db.buzz_queue = << >>
        /\ \A k \in DOMAIN NoClue : g[k] = game_state[k]
        /\ g.status = game_state.status
        /\ g.turn_player_id = game_state.turn_player_id

\* C27 witness: a clue is up in an active game with a turn holder, a lock
\* holder and a waiting player, and unlock-buzzer releases both.
C27_Witness ==
    /\ game_state.status = "active"
    /\ ClueActive(game_state)
    /\ game_state.turn_player_id \in players
    /\ game_state.last_buzz_player_id \in players
    /\ buzz_queue # << >>
    /\ UnlockBuzzer(DB).db.buzz_queue # buzz_queue
    /\ LockOf(UnlockBuzzer(DB).db.game_state) # LockOf(game_state)

\* C28: whatever state start is called in, it answers 200 and leaves
\* status 'active', no turn holder, no active clue and every question with
\* used_in_game = 0.
C28_AfterStart ==
    LET o == Start(DB)
        g == o.db.game_state
    IN  /\ o.resp.code = 200
        /\ g.status = "active"
        /\ g.turn_player_id = NULL
        /\ ~ClueActive(g)
        /\ \A k \in DOMAIN NoClue : g[k] = NoClue[k]
        /\ \A q \in DOMAIN o.db.questions : o.db.questions[q].used_in_game = 0

\* C28 witness: an ended game with a used tile, its clue still up and a
\* turn holder, from which start begins a new game.
C28_Witness ==
    /\ game_state.status = "ended"
    /\ ClueActive(game_state)
    /\ game_state.turn_player_id \in players
    /\ \E q \in DOMAIN questions : questions[q].used_in_game = 1
    /\ Start(DB).db.questions # questions

\* C29: the deletion of a registered player P, from any reachable state,
\* answers 200 and leaves P out of the roster, with no row in the buzz
\* queue, not the turn holder and not the lock holder; if P held the lock
\* the buzzer is left unlocked, and otherwise the lock is as it was.
C29_DeletedPlayerUnreferenced ==
    \A P \in players :
        LET o == DeletePlayer(DB, P)
            g == o.db.game_state
        IN  /\ o.resp.code = 200
            /\ P \notin o.db.players
            /\ \A i \in DOMAIN o.db.buzz_queue : o.db.buzz_queue[i].player_id # P
            /\ g.turn_player_id # P
            /\ g.last_buzz_player_id # P
            /\ game_state.last_buzz_player_id = P => LockOf(g) = NotLocked
            /\ game_state.last_buzz_player_id # P => LockOf(g) = LockOf(game_state)
            /\ \A q \in DOMAIN o.db.questions : o.db.questions[q].player_id # P

\* C29 witness: mid-game, one player holds both the turn and the lock while
\* a clue is up, another waits in the queue, and either can be deleted.
C29_Witness ==
    /\ game_state.status = "active"
    /\ ClueActive(game_state)
    /\ game_state.buzzer_locked = 1
    /\ game_state.last_buzz_player_id \in players
    /\ game_state.turn_player_id = game_state.last_buzz_player_id
    /\ \E i \in DOMAIN buzz_queue :
           /\ buzz_queue[i].player_id \in players
           /\ DeletePlayer(DB, buzz_queue[i].player_id).db.buzz_queue # buzz_queue
    /\ DeletePlayer(DB, game_state.turn_player_id).db.game_state.buzzer_locked = 0

\* The 1-based ranks at which successive dequeueNextBuzz() calls may return
\* the row of player p: one rank, unless rows with equal buzz_time leave the
\* order open.
RECURSIVE DequeueRanks(_, _)
DequeueRanks(q, p) ==
    UNION { IF q[i].player_id = p
            THEN {1}
            ELSE { r + 1 : r \in DequeueRanks(RemoveAt(q, i), p) } :
            i \in NextBuzzIndexes(q) }

\* C30: when a registered player who is neither the lock holder nor queued
\* buzzes while the buzzer is locked and the buzz passes the handler's
\* checks, a row for the player is appended to the queue and the answer is
\* queued=true with position = the length of the queue after the insertion;
\* no queued buzz is later than the new one, so the position is the
\* player's rank in dequeue order, and the only one unless an earlier buzz
\* carries the same timestamp.
C30_QueuePosition ==
    (Accepting(DB) /\ game_state.buzzer_locked = 1) =>
        \A playerId \in players \ (PlayerIdsOf(buzz_queue)
                                    \cup {game_state.last_buzz_player_id}) :
        \A now \in Now(DB, MaxQueueTime) :
            LET o == Buzz(DB, playerId, now)
                q == o.db.buzz_queue
            IN  /\ o.resp.code = 200
                /\ o.resp.queued
                /\ q = Append(buzz_queue,
                              [player_id |-> playerId, buzz_time |-> now])
                /\ o.resp.position = Len(q)
                /\ o.resp.position = Len(buzz_queue) + 1
                /\ o.resp.position \in DequeueRanks(q, playerId)
                /\ (\A i \in DOMAIN buzz_queue : buzz_queue[i].buzz_time < now)
                       => DequeueRanks(q, playerId) = {o.resp.position}
                /\ o.db.game_state = game_state
                /\ o.sent.queue = << q >>

\* C30 witness: two players wait behind the lock holder and a fourth, who
\* is neither, can buzz in at a later time to take position three.
C30_Witness ==
    /\ Accepting(DB)
    /\ game_state.buzzer_locked = 1
    /\ Len(buzz_queue) = 2
    /\ \E playerId \in players \ (PlayerIdsOf(buzz_queue)
                                   \cup {game_state.last_buzz_player_id}) :
       \E now \in Now(DB, MaxQueueTime) :
           /\ \A i \in DOMAIN buzz_queue : buzz_queue[i].buzz_time < now
           /\ Buzz(DB, playerId, now).resp.position = 3

\* The positions, in the list the board holds, of the selected questions
\* that sit on a tile.
OnTile(list, tile) ==
    { i \in DOMAIN list : TileKey(list[i]) = tile }

\* C31: when one or more selected questions share a tile's category and
\* points, the lookup maps the tile to the first of them, in list order,
\* that is not used in the game, and to the first of them when all are used;
\* a tile no selected question sits on is not in the lookup.
C31_LookupPrefersUnused ==
    LET list   == BoardSelected(ListQuestions(questions, players))
        lookup == Lookup(ListQuestions(questions, players))
    IN  \A tile \in BoardTiles :
            LET same   == OnTile(list, tile)
                unused == { i \in same : list[i].usedInGame = 0 }
                first(S) == CHOOSE i \in S : \A j \in S : i <= j
            IN  IF same = {} THEN tile \notin DOMAIN lookup
                ELSE /\ tile \in DOMAIN lookup
                     /\ lookup[tile] =
                            list[first(IF unused # {} THEN unused ELSE same)]

\* C31 witness: three selected questions share a tile; the first two of the
\* list have been picked and are used, the third is not.
C31_Witness ==
    LET list == BoardSelected(ListQuestions(questions, players))
    IN  \E tile \in BoardTiles :
            /\ OnTile(list, tile) = {1, 2, 3}
            /\ list[1].usedInGame = 1
            /\ list[2].usedInGame = 1
            /\ list[3].usedInGame = 0
            /\ Lookup(ListQuestions(questions, players))[tile] = list[3]

\* C32 as stated: whenever the buzz queue is not empty, the buzzer is locked
\* to a player.
C32_QueueImpliesLock ==
    buzz_queue # << >> =>
        /\ game_state.buzzer_locked = 1
        /\ game_state.last_buzz_player_id # NULL

\* C33 as stated: the player the buzzer is locked to has no row in the buzz
\* queue, and no wrong resolution hands the lock to the player who holds it.
C33_HolderNotQueued ==
    (game_state.buzzer_locked = 1 /\ game_state.last_buzz_player_id # NULL) =>
        /\ game_state.last_buzz_player_id \notin PlayerIdsOf(buzz_queue)
        /\ \A playerId \in PlayerInputs : \A nextNow \in Now(DB, MaxTime) :
           \A next \in DequeueChoices(buzz_queue) :
               LET o == ResolveCurrent(DB, playerId, FALSE, nextNow, next)
               IN  o.resp.code = 200 =>
                       o.db.game_state.last_buzz_player_id
                           # game_state.last_buzz_player_id

\* What one resolve-current call may leave.
ResolveOutcomes(db, playerId) ==
    { ResolveCurrent(db, playerId, c, n, i) :
        c \in BOOLEAN, n \in Now(db, MaxTime),
        i \in DequeueChoices(db.buzz_queue) }

\* C34 as stated: a resolve-current whose playerId is not the lock holder,
\* or that is made while the buzzer is unlocked, changes no score, does not
\* move the lock and does not set the turn.
C34_ResolveOnlyLockHolder ==
    \A playerId \in PlayerInputs :
        (playerId # game_state.last_buzz_player_id
         \/ game_state.buzzer_locked = 0) =>
            \A o \in ResolveOutcomes(DB, playerId) :
                /\ o.db.score = score
                /\ LockOf(o.db.game_state) = LockOf(game_state)
                /\ o.db.game_state.turn_player_id = game_state.turn_player_id

\* C34 amended: resolve-current changes the score only of the player it
\* names, whoever holds the lock: no other player's score changes, a call
\* that succeeds adds or takes the clue's value, and a call that is refused
\* changes no score, does not move the lock and does not set the turn.
C34_ResolveScoresNamedPlayer ==
    \A playerId \in PlayerInputs :
    \A correct \in BOOLEAN : \A nextNow \in Now(DB, MaxTime) :
    \A next \in DequeueChoices(buzz_queue) :
        LET o == ResolveCurrent(DB, playerId, correct, nextNow, next)
            delta == ClueDelta(game_state, questions)
        IN  /\ o.db.players = players
            /\ \A p \in players \ {playerId} : o.db.score[p] = score[p]
            /\ (o.resp.code = 200 /\ playerId \in players) =>
                   o.db.score[playerId] =
                       score[playerId] + (IF correct THEN delta ELSE -delta)
            /\ o.resp.code # 200 =>
                   /\ o.db.score = score
                   /\ LockOf(o.db.game_state) = LockOf(game_state)
                   /\ o.db.game_state.turn_player_id = game_state.turn_player_id

\* C34 witness: one player holds the lock on a clue worth points, and a
\* resolve-current that names another player changes that player's score.
C34_Witness ==
    /\ ClueActive(game_state)
    /\ game_state.buzzer_locked = 1
    /\ game_state.last_buzz_player_id \in players
    /\ \E playerId \in players \ {game_state.last_buzz_player_id} :
       \E o \in ResolveOutcomes(DB, playerId) :
           /\ o.resp.code = 200
           /\ o.db.score[playerId] # score[playerId]
           /\ o.db.score[game_state.last_buzz_player_id]
                  = score[game_state.last_buzz_player_id]

\* C35 as stated: the turn holder, the lock holder and the player of every
\* queue row are registered players.
C35_ReferencesExist ==
    /\ game_state.turn_player_id # NULL => game_state.turn_player_id \in players
    /\ game_state.last_buzz_player_id # NULL =>
           game_state.last_buzz_player_id \in players
    /\ \A i \in DOMAIN buzz_queue : buzz_queue[i].player_id \in players

\* C36 as stated: question_reading is set only while a clue is active; a
\* correct resolve, skip, start, reset and reset-board leave it clear; and
\* a placeholder clue just selected is not under a reading flag.
C36_ReadingOnlyWithClue ==
    /\ game_state.question_reading # 0 => ClueActive(game_state)
    /\ \A o \in { SkipCurrent(DB), Start(DB), Reset(DB), ResetBoard(DB) }
                \cup { ResolveCurrent(DB, p, TRUE, n, i) :
                         p \in PlayerInputs, n \in Now(DB, MaxTime),
                         i \in DequeueChoices(buzz_queue) } :
           o.resp.code = 200 => o.db.game_state.question_reading = 0
    /\ \A t \in Tiles, f \in BOOLEAN, p \in PlayerInputs :
           LET o == SelectCard(DB, NULL, t, f, p)
           IN  o.resp.code = 200 => o.db.game_state.question_reading = 0

\* C37 as stated: a placeholder clue carries no question id, and a question
\* id that is set is that of a catalog row whose used_in_game flag is set.
C37_ClueOfOneKind ==
    /\ game_state.current_is_placeholder = 1 =>
           game_state.current_question_id = NULL
    /\ game_state.current_question_id # NULL =>
           /\ game_state.current_question_id \in DOMAIN questions
           /\ questions[game_state.current_question_id].used_in_game = 1

\* C38 as stated: an active clue implies status 'active'; select-card
\* activates no clue while the status is 'waiting' or 'ended', and end
\* leaves no clue active.
C38_ClueOnlyWhileActive ==
    /\ ClueActive(game_state) => game_state.status = "active"
    /\ game_state.status # "active" =>
           \A q \in QuestionInputs, t \in Tiles, f \in BOOLEAN,
              p \in PlayerInputs :
               ~ClueActive(SelectCard(DB, q, t, f, p).db.game_state)
    /\ ~ClueActive(End(DB).db.game_state)

\* The clue's question is gone from the catalog: resolve-current answers 404.
ClueQuestionDeleted(db) ==
    /\ db.game_state.current_is_placeholder = 0
    /\ db.game_state.current_question_id # NULL
    /\ db.game_state.current_question_id \notin DOMAIN db.questions

\* C39: in every state with an active clue, in whatever status and whoever
\* holds the lock, skip-current answers 200 and leaves no clue active; this
\* is so also when the clue's question has been deleted, where every
\* resolve-current is refused and leaves the clue as it is.
C39_ClueCanBeLeft ==
    ClueActive(game_state) =>
        /\ SkipCurrent(DB).resp.code = 200
        /\ ~ClueActive(SkipCurrent(DB).db.game_state)
        /\ ClueQuestionDeleted(DB) =>
               \A p \in PlayerInputs : \A o \in ResolveOutcomes(DB, p) :
                   /\ o.resp.code \in {400, 404}
                   /\ o.db = DB

\* C39 witness: the question of the active clue has been deleted with its
\* owner while a player holds the lock; no resolve-current succeeds, and
\* skip-current clears the clue.
C39_Witness ==
    /\ ClueQuestionDeleted(DB)
    /\ game_state.status = "active"
    /\ game_state.buzzer_locked = 1
    /\ game_state.last_buzz_player_id \in players
    /\ \A o \in ResolveOutcomes(DB, game_state.last_buzz_player_id) :
           o.resp.code = 404
    /\ SkipCurrent(DB).resp.code = 200

====
